---- MODULE Spec2Model ----
(***************************************************************************)
(* A model of the GenBank flat-file reader of io.go: the fixed-column line *)
(* classifiers, parseLocus, joinSubLines, getSourceOrganism, getReference, *)
(* getFeatures, getSequence and the ParseGbk dispatcher; and of the GFF    *)
(* writer and reader, BuildGff and ParseGff.                               *)
(*                                                                         *)
(* A Go string is a sequence of one-character strings.  Go indexes from 0, *)
(* TLA+ from 1: Col(line, i) is Go's line[i].  An index out of range is a  *)
(* Go run-time panic; the functions that can panic return a record         *)
(* [panic, val], and a panic ends the call (nothing recovers it).          *)
(***************************************************************************)
EXTENDS Integers, Sequences, FiniteSets, TLC

VARIABLES
    lines,      \* the line array a function is called with
    line,       \* the single line a function is called with; BuildGff's text
    pc,         \* the position of the call being modelled
    ret,        \* the value a pure function returned; ParseGff's locals
    gf,         \* getFeatures' locals: lineIndex, line, features, feature, qualifier
    ref,        \* getReference's locals: numSubLine, reference
    numLine,    \* ParseGbk's cursor
    meta,       \* ParseGbk's meta
    features,   \* ParseGbk's features
    sequence    \* ParseGbk's sequence

vars == <<lines, line, pc, ret, gf, ref, numLine, meta, features, sequence>>

----------------------------------------------------------------------------
\* Bounds of the model.

\* longest line (in characters) given to the line classifiers
MaxLineLen == 23

\* most tokens on a LOCUS line
MaxLocusTokens == 9

\* most lines after the defining line given to joinSubLines
MaxJoinLines == 4

\* most lines after the SOURCE line given to getSourceOrganism
MaxSourceLines == 3

\* most lines after the REFERENCE line given to getReference
MaxRefLines == 3

\* most lines after the FEATURES line given to getFeatures
MaxFeatLines == 4

\* most lines of the text given to ParseGbk
MaxGbkLines == 3

----------------------------------------------------------------------------
\* Words of the GenBank vocabulary, as character sequences.

W_LOCUS == <<"L","O","C","U","S">>
W_DEFINITION == <<"D","E","F","I","N","I","T","I","O","N">>
W_ACCESSION == <<"A","C","C","E","S","S","I","O","N">>
W_VERSION == <<"V","E","R","S","I","O","N">>
W_KEYWORDS == <<"K","E","Y","W","O","R","D","S">>
W_SOURCE == <<"S","O","U","R","C","E">>
W_REFERENCE == <<"R","E","F","E","R","E","N","C","E">>
W_FEATURES == <<"F","E","A","T","U","R","E","S">>
W_ORIGIN == <<"O","R","I","G","I","N">>
W_ORGANISM == <<"O","R","G","A","N","I","S","M">>
W_AUTHORS == <<"A","U","T","H","O","R","S">>
W_TITLE == <<"T","I","T","L","E">>
W_JOURNAL == <<"J","O","U","R","N","A","L">>
W_PUBMED == <<"P","U","B","M","E","D">>
W_REMARK == <<"R","E","M","A","R","K">>
W_COMMENT == <<"C","O","M","M","E","N","T">>
W_circular == <<"c","i","r","c","u","l","a","r">>
W_linear == <<"l","i","n","e","a","r">>

genbankTopLevelFeatures ==
    {W_LOCUS, W_DEFINITION, W_ACCESSION, W_VERSION, W_KEYWORDS, W_SOURCE,
     W_REFERENCE, W_FEATURES, W_ORIGIN}

Letters ==
    {"a","b","c","d","e","f","g","h","i","j","k","l","m","n","o","p","q","r",
     "s","t","u","v","w","x","y","z","A","B","C","D","E","F","G","H","I","J",
     "K","L","M","N","O","P","Q","R","S","T","U","V","W","X","Y","Z"}

----------------------------------------------------------------------------
\* Go's strings package, on character sequences.

\* the white space strings.TrimSpace removes
IsSpace(c) == c \in {" ", "\t", "\n", "\r"}

RECURSIVE TrimLeft(_)
TrimLeft(s) ==
    IF s = <<>> THEN <<>>
    ELSE IF IsSpace(Head(s)) THEN TrimLeft(Tail(s)) ELSE s

RECURSIVE TrimRight(_)
TrimRight(s) ==
    IF s = <<>> THEN <<>>
    ELSE IF IsSpace(s[Len(s)]) THEN TrimRight(SubSeq(s, 1, Len(s) - 1)) ELSE s

\* strings.TrimSpace
TrimSpace(s) == TrimRight(TrimLeft(s))

\* the first position of character c in s, 0 when there is none
IndexOf(s, c) ==
    IF \E i \in 1..Len(s) : s[i] = c
    THEN CHOOSE i \in 1..Len(s) : s[i] = c /\ \A j \in 1..(i - 1) : s[j] # c
    ELSE 0

\* strings.Split(s, c) for a one-character separator: every occurrence of c
\* separates, so two adjacent separators give an empty element, and a string
\* without c (the empty string too) gives one element.
RECURSIVE Split(_, _)
Split(s, c) ==
    LET i == IndexOf(s, c)
    IN  IF i = 0 THEN <<s>>
        ELSE <<SubSeq(s, 1, i - 1)>> \o Split(SubSeq(s, i + 1, Len(s)), c)

\* strings.Join(a, sep)
RECURSIVE Join(_, _)
Join(a, sep) ==
    IF a = <<>> THEN <<>>
    ELSE IF Len(a) = 1 THEN a[1]
    ELSE a[1] \o sep \o Join(Tail(a), sep)

\* regexp ReplaceAllString(s, "") for a character class: the characters of s
\* that are not in the class, in order
RECURSIVE RemoveChars(_, _)
RemoveChars(s, class) ==
    IF s = <<>> THEN <<>>
    ELSE IF Head(s) \in class THEN RemoveChars(Tail(s), class)
    ELSE <<Head(s)>> \o RemoveChars(Tail(s), class)

\* n spaces
RECURSIVE Sp(_)
Sp(n) == IF n <= 0 THEN <<>> ELSE <<" ">> \o Sp(n - 1)

\* Go's line[i]
Col(s, i) == s[i + 1]

\* the results of a function that can panic
Ok(v) == [panic |-> FALSE, val |-> v]
PanicBool == [panic |-> TRUE, val |-> FALSE]

----------------------------------------------------------------------------
\* The line classifiers.  && evaluates left to right and stops at the first
\* false operand, so a column is read only when the columns before it passed.

metaIndex == 0
subMetaIndex == 5
qualifierIndex == 21

quickMetaCheck(l) ==
    IF Len(l) <= metaIndex THEN PanicBool
    ELSE Ok(Col(l, metaIndex) # " ")

quickSubMetaCheck(l) ==
    IF Len(l) <= metaIndex THEN PanicBool
    ELSE IF Col(l, metaIndex) # " " THEN Ok(FALSE)
    ELSE IF Len(l) <= subMetaIndex THEN PanicBool
    ELSE Ok(Col(l, subMetaIndex) # " ")

quickFeatureCheck(l) ==
    IF Len(l) <= metaIndex THEN PanicBool
    ELSE IF Col(l, metaIndex) # " " THEN Ok(FALSE)
    ELSE IF Len(l) <= subMetaIndex THEN PanicBool
    ELSE Ok(Col(l, subMetaIndex) # " ")

quickQualifierCheck(l) ==
    IF Len(l) <= metaIndex THEN PanicBool
    ELSE IF Col(l, metaIndex) # " " THEN Ok(FALSE)
    ELSE IF Len(l) <= subMetaIndex THEN PanicBool
    ELSE IF Col(l, subMetaIndex) # " " THEN Ok(FALSE)
    ELSE IF Len(l) <= qualifierIndex THEN PanicBool
    ELSE Ok(Col(l, qualifierIndex) = "/")

quickQualifierSubLineCheck(l) ==
    IF Len(l) <= metaIndex THEN PanicBool
    ELSE IF Col(l, metaIndex) # " " THEN Ok(FALSE)
    ELSE IF Len(l) <= subMetaIndex THEN PanicBool
    ELSE IF Col(l, subMetaIndex) # " " THEN Ok(FALSE)
    ELSE IF Len(l) <= qualifierIndex THEN PanicBool
    ELSE IF Col(l, qualifierIndex) = "/" THEN Ok(FALSE)
    ELSE Ok(Col(l, qualifierIndex - 1) = " ")

genbankSubLevelFeatures ==
    {W_ORGANISM, W_AUTHORS, W_TITLE, W_JOURNAL, W_PUBMED, W_REMARK}

\* topLevelFeatureCheck ranging over the sub-level list, as
\* subLevelFeatureCheck does
topLevelFeatureCheckWrongList(featureString) ==
    TrimSpace(featureString) \in genbankSubLevelFeatures

\* topLevelFeatureCheck: membership of the trimmed string in the keyword list
topLevelFeatureCheck(featureString) ==
    TrimSpace(featureString) \in genbankTopLevelFeatures

----------------------------------------------------------------------------
\* Values of the variables a specification does not use.

NoRet == [fn |-> "none"]
NoFrame == [pc |-> "none"]
EmptyLocus ==
    [Name |-> <<>>, SequenceLength |-> <<>>, MoleculeType |-> <<>>,
     GenBankDivision |-> <<>>, ModDate |-> <<>>, Circular |-> FALSE]
EmptyMeta ==
    [Definition |-> <<>>, Accession |-> <<>>, Version |-> <<>>,
     Keywords |-> <<>>, Organism |-> <<>>, Source |-> <<>>,
     Locus |-> EmptyLocus, References |-> <<>>]

----------------------------------------------------------------------------
\* SpecClass: each line classifier applied to one line.

ClassChars == {" ", "/", "a"}

\* a line of n characters, blank but for columns 0, 5, 20 and 21
MkLine(n, c0, c5, c20, c21) ==
    [i \in 1..n |->
        CASE i = metaIndex + 1 -> c0
          [] i = subMetaIndex + 1 -> c5
          [] i = qualifierIndex -> c20
          [] i = qualifierIndex + 1 -> c21
          [] OTHER -> " "]

ClassLines ==
    {MkLine(n, c0, c5, c20, c21) :
        n \in 0..MaxLineLen, c0 \in ClassChars, c5 \in ClassChars,
        c20 \in ClassChars, c21 \in ClassChars}

InitClass ==
    /\ line \in ClassLines
    /\ pc = "classify"
    /\ ret = NoRet
    /\ lines = <<>>
    /\ gf = NoFrame
    /\ ref = NoFrame
    /\ numLine = 0
    /\ meta = EmptyMeta
    /\ features = <<>>
    /\ sequence = <<>>

Classified(fn, r) ==
    /\ pc = "classify"
    /\ ret' = [fn |-> fn, panic |-> r.panic, val |-> r.val]
    /\ pc' = "classified"
    /\ UNCHANGED <<lines, line, gf, ref, numLine, meta, features, sequence>>

CallQuickMetaCheck == Classified("quickMetaCheck", quickMetaCheck(line))
CallQuickSubMetaCheck == Classified("quickSubMetaCheck", quickSubMetaCheck(line))
CallQuickFeatureCheck == Classified("quickFeatureCheck", quickFeatureCheck(line))
CallQuickQualifierCheck == Classified("quickQualifierCheck", quickQualifierCheck(line))
CallQuickQualifierSubLineCheck ==
    Classified("quickQualifierSubLineCheck", quickQualifierSubLineCheck(line))

NextClass ==
    \/ CallQuickMetaCheck
    \/ CallQuickSubMetaCheck
    \/ CallQuickFeatureCheck
    \/ CallQuickQualifierCheck
    \/ CallQuickQualifierSubLineCheck

SpecClass == InitClass /\ [][NextClass]_vars

\* the line's column i holds a character and it is not a blank
NonBlankAt(l, i) == Len(l) > i /\ Col(l, i) # " "

\* C4: line classification never fails on a short line: on a line of fewer
\* than 22 characters every classifier returns a boolean (no column that does
\* not exist is read), and when the line is neither top-level (column 0
\* non-blank) nor sub-level (column 5 non-blank) the qualifier and the
\* qualifier-continuation checks are both false (plain continuation).
C4_ShortLineNeverFails ==
    (pc = "classified" /\ Len(line) <= qualifierIndex) =>
        /\ ~ret.panic
        /\ (/\ ret.fn \in {"quickQualifierCheck", "quickQualifierSubLineCheck"}
            /\ ~NonBlankAt(line, metaIndex)
            /\ ~NonBlankAt(line, subMetaIndex)) => ret.val = FALSE

----------------------------------------------------------------------------
\* parseLocus.  filteredLocusSplit is indexed at 1, 2, 3, 4, 5 and then at
\* 6, 7 (circular/linear) or 5, 6; the first index past the end panics.

NonEmpty(t) == t # <<>>

\* parseLocus without the shift a topology token makes: division and date
\* always from tokens 5 and 6
parseLocusNoShift(locusString) ==
    LET filteredLocusSplit ==
            SelectSeq(Split(TrimSpace(locusString), " "), NonEmpty)
        tok(i) == filteredLocusSplit[i + 1]
    IN  IF Len(filteredLocusSplit) <= 6 THEN [panic |-> TRUE, val |-> EmptyLocus]
        ELSE Ok([Name |-> tok(1),
                 SequenceLength |-> Join(<<tok(2), tok(3)>>, <<" ">>),
                 MoleculeType |-> tok(4),
                 Circular |-> tok(5) = W_circular,
                 GenBankDivision |-> tok(5),
                 ModDate |-> tok(6)])

parseLocus(locusString) ==
    LET locusSplit == Split(TrimSpace(locusString), " ")
        filteredLocusSplit == SelectSeq(locusSplit, NonEmpty)
        n == Len(filteredLocusSplit)
        tok(i) == filteredLocusSplit[i + 1]
        head == [EmptyLocus EXCEPT
                    !.Name = tok(1),
                    !.SequenceLength = Join(<<tok(2), tok(3)>>, <<" ">>),
                    !.MoleculeType = tok(4)]
    IN  IF n <= 5 THEN [panic |-> TRUE, val |-> EmptyLocus]
        ELSE IF tok(5) = W_circular \/ tok(5) = W_linear
        THEN IF n <= 7 THEN [panic |-> TRUE, val |-> EmptyLocus]
             ELSE Ok([head EXCEPT
                        !.Circular = (tok(5) = W_circular),
                        !.GenBankDivision = tok(6),
                        !.ModDate = tok(7)])
        ELSE IF n <= 6 THEN [panic |-> TRUE, val |-> EmptyLocus]
             ELSE Ok([head EXCEPT
                        !.Circular = FALSE,
                        !.GenBankDivision = tok(5),
                        !.ModDate = tok(6)])

----------------------------------------------------------------------------
\* SpecLocus: parseLocus applied to one LOCUS line.

\* the tokens of a LOCUS line by position; position 5 is the topology or,
\* when the line has none, the division
LocusToken(i, t5) ==
    CASE i = 0 -> W_LOCUS
      [] i = 1 -> <<"t","e","s","t">>
      [] i = 2 -> <<"1","0">>
      [] i = 3 -> <<"b","p">>
      [] i = 4 -> <<"D","N","A">>
      [] i = 5 -> t5
      [] i = 6 -> <<"S","Y","N">>
      [] i = 7 -> <<"0","1","-","J","A","N">>
      [] OTHER -> <<"x">>

\* a LOCUS line of n tokens, sep blanks between two tokens, lead blanks
\* before the first and trail blanks after the last
LocusLine(n, t5, sep, lead, trail) ==
    Sp(lead) \o Join([i \in 1..n |-> LocusToken(i - 1, t5)], Sp(sep)) \o Sp(trail)

LocusLines ==
    {LocusLine(n, t5, sep, lead, trail) :
        n \in 1..MaxLocusTokens,
        t5 \in {W_circular, W_linear, <<"B","C","T">>},
        sep \in 1..2, lead \in 0..1, trail \in 0..1}

InitLocus ==
    /\ line \in LocusLines
    /\ pc = "locus"
    /\ ret = NoRet
    /\ lines = <<>>
    /\ gf = NoFrame
    /\ ref = NoFrame
    /\ numLine = 0
    /\ meta = EmptyMeta
    /\ features = <<>>
    /\ sequence = <<>>

CallParseLocus ==
    /\ pc = "locus"
    /\ ret' = parseLocus(line)
    /\ pc' = "locusDone"
    /\ UNCHANGED <<lines, line, gf, ref, numLine, meta, features, sequence>>

NextLocus == CallParseLocus

SpecLocus == InitLocus /\ [][NextLocus]_vars

\* The non-empty space-separated tokens of a line, read off the line itself
\* (not through Split): a token starts at a non-blank that follows a blank
\* or the start of the line, and runs to the next blank or the end.
TokenStarts(s) ==
    {i \in 1..Len(s) : s[i] # " " /\ (i = 1 \/ s[i - 1] = " ")}
NumTokens(s) == Cardinality(TokenStarts(s))
TokenAt(s, k) ==
    LET i == CHOOSE x \in TokenStarts(s) :
                Cardinality({y \in TokenStarts(s) : y < x}) = k
        j == CHOOSE x \in i..Len(s) :
                /\ \A y \in i..x : s[y] # " "
                /\ (x = Len(s) \/ s[x + 1] = " ")
    IN  SubSeq(s, i, j)

\* C5: parseLocus signals MalformedLocus exactly when the line has fewer than
\* 7 non-empty tokens, and returns a Locus for every line of 7 or more tokens
\* (the only failure parseLocus has is the run-time panic).
C5_MalformedIffFewerThanSeven ==
    pc = "locusDone" => (ret.panic <=> NumTokens(line) < 7)

\* the line has the tokens its layout reads: 0..7 with a topology at 5,
\* 0..6 without
HasLayoutTokens(s) ==
    /\ NumTokens(s) >= 6
    /\ IF TokenAt(s, 5) \in {W_circular, W_linear}
       THEN NumTokens(s) >= 8
       ELSE NumTokens(s) >= 7

\* C10: for every LOCUS line that has the tokens its layout requires,
\* parseLocus returns Name = token 1, SequenceLength = token 2, one blank,
\* token 3, MoleculeType = token 4; with circular or linear at 5, Circular is
\* true exactly for circular, GenBankDivision = token 6 and ModDate = token 7;
\* otherwise Circular is false, GenBankDivision = token 5, ModDate = token 6.
C10_LocusFieldsByPosition ==
    (pc = "locusDone" /\ HasLayoutTokens(line)) =>
        /\ ~ret.panic
        /\ ret.val.Name = TokenAt(line, 1)
        /\ ret.val.SequenceLength = TokenAt(line, 2) \o <<" ">> \o TokenAt(line, 3)
        /\ ret.val.MoleculeType = TokenAt(line, 4)
        /\ IF TokenAt(line, 5) \in {W_circular, W_linear}
           THEN /\ ret.val.Circular = (TokenAt(line, 5) = W_circular)
                /\ ret.val.GenBankDivision = TokenAt(line, 6)
                /\ ret.val.ModDate = TokenAt(line, 7)
           ELSE /\ ret.val.Circular = FALSE
                /\ ret.val.GenBankDivision = TokenAt(line, 5)
                /\ ret.val.ModDate = TokenAt(line, 6)

\* C10 witnesses: a circular line with blank runs between its tokens parsed
\* to a circular Locus whose division and date come from tokens 6 and 7
C10_Witness ==
    /\ pc = "locusDone"
    /\ HasLayoutTokens(line)
    /\ TokenAt(line, 5) = W_circular
    /\ Len(line) > 40
    /\ ~ret.panic
    /\ ret.val.Circular
    /\ ret.val.ModDate = <<"0","1","-","J","A","N">>

----------------------------------------------------------------------------
\* joinSubLines.  The loop folds subLines[k] into base while neither
\* quickMetaCheck nor quickSubMetaCheck holds of it; used is the number of
\* sub-lines folded in.

\* splitLine[1:] joined by single blanks and trimmed
baseOf(splitLine) == TrimSpace(Join(Tail(splitLine), <<" ">>))

\* the loop without its quickSubMetaCheck test: only a top-level line stops it
RECURSIVE joinLoopNoSubCheck(_, _, _)
joinLoopNoSubCheck(base, subLines, k) ==
    IF k > Len(subLines) THEN [panic |-> FALSE, val |-> base, used |-> k - 1]
    ELSE
        LET subLine == subLines[k]
            m == quickMetaCheck(subLine)
        IN  IF m.panic THEN [panic |-> TRUE, val |-> <<>>, used |-> k - 1]
            ELSE IF m.val THEN [panic |-> FALSE, val |-> base, used |-> k - 1]
            ELSE joinLoopNoSubCheck(
                    TrimSpace(TrimSpace(base) \o <<" ">> \o TrimSpace(subLine)),
                    subLines, k + 1)

RECURSIVE joinLoop(_, _, _)
joinLoop(base, subLines, k) ==
    IF k > Len(subLines) THEN [panic |-> FALSE, val |-> base, used |-> k - 1]
    ELSE
        LET subLine == subLines[k]
            m == quickMetaCheck(subLine)
            sm == quickSubMetaCheck(subLine)
        IN  IF m.panic THEN [panic |-> TRUE, val |-> <<>>, used |-> k - 1]
            ELSE IF m.val THEN [panic |-> FALSE, val |-> base, used |-> k - 1]
            ELSE IF sm.panic THEN [panic |-> TRUE, val |-> <<>>, used |-> k - 1]
            ELSE IF sm.val THEN [panic |-> FALSE, val |-> base, used |-> k - 1]
            ELSE joinLoop(
                    TrimSpace(TrimSpace(base) \o <<" ">> \o TrimSpace(subLine)),
                    subLines, k + 1)

joinSubLines(splitLine, subLines) == joinLoop(baseOf(splitLine), subLines, 1)

\* subLines[n:]
SliceFrom(subLines, n) == SubSeq(subLines, n + 1, Len(subLines))

----------------------------------------------------------------------------
\* getSourceOrganism.  orgLine is the numSubLine at which the loop took its
\* else branch (-1 when it never did).

RECURSIVE sourceLoop(_, _, _)
sourceLoop(source, subLines, numSubLine) ==
    IF numSubLine >= Len(subLines)
    THEN [panic |-> FALSE, source |-> source, organism |-> <<>>, orgLine |-> -1]
    ELSE
        LET subLine == subLines[numSubLine + 1]
            headString == Split(TrimSpace(subLine), " ")[1]
        IN  IF Len(subLine) = 0
            THEN [panic |-> TRUE, source |-> <<>>, organism |-> <<>>,
                  orgLine |-> -1]
            ELSE IF Col(subLine, 0) = " " /\ headString # W_ORGANISM
            THEN sourceLoop(
                    TrimSpace(TrimSpace(source) \o <<" ">> \o TrimSpace(subLine)),
                    subLines, numSubLine + 1)
            ELSE
                LET organismSubLines == SliceFrom(subLines, numSubLine + 1)
                    organismSplitLine == Split(TrimSpace(subLine), " ")
                    j == joinSubLines(organismSplitLine, organismSubLines)
                IN  [panic |-> j.panic,
                     source |-> IF j.panic THEN <<>> ELSE source,
                     organism |-> j.val,
                     orgLine |-> numSubLine]

getSourceOrganism(splitLine, subLines) ==
    sourceLoop(baseOf(splitLine), subLines, 0)

----------------------------------------------------------------------------
\* getReference.  The frame holds the loop's numSubLine and the reference
\* built so far; from is the set of sub-line indices whose text went into
\* Authors, Title, Journal, PubMed or Remark (the matched sub-line and the
\* lines joinSubLines folded in), touched the set of sub-line indices whose
\* iteration changed the reference.

EmptyReference ==
    [Index |-> <<>>, Authors |-> <<>>, Title |-> <<>>, Journal |-> <<>>,
     PubMed |-> <<>>, Remark |-> <<>>, Range |-> <<>>]

\* the statements before the loop: Index and Range from the REFERENCE line
refEnter(splitLine) ==
    LET base == baseOf(splitLine)
        baseSplit == Split(base, " ")
    IN  [pc |-> "loop",
         numSubLine |-> 0,
         reference |->
            [EmptyReference EXCEPT
                !.Index = baseSplit[1],
                !.Range = IF Len(base) > 1
                          THEN TrimSpace(Join(Tail(baseSplit), <<" ">>))
                          ELSE <<>>],
         from |-> {},
         touched |-> {}]

\* the reference with the field the sub-level keyword names set to text
setField(reference, headString, text) ==
    CASE headString = W_AUTHORS -> [reference EXCEPT !.Authors = text]
      [] headString = W_TITLE -> [reference EXCEPT !.Title = text]
      [] headString = W_JOURNAL -> [reference EXCEPT !.Journal = text]
      [] headString = W_PUBMED -> [reference EXCEPT !.PubMed = text]
      [] headString = W_REMARK -> [reference EXCEPT !.Remark = text]
      [] OTHER -> reference

\* one iteration of the loop, at fr.numSubLine < Len(subLines)
refStep(fr, subLines) ==
    LET n == fr.numSubLine
        subLine == subLines[n + 1]
        featureSubLines == SliceFrom(subLines, n + 1)
        featureSplitLine == Split(TrimSpace(subLine), " ")
        headString == featureSplitLine[1]
        j == joinSubLines(featureSplitLine, featureSubLines)
        next == setField(fr.reference, headString, j.val)
    IN  IF topLevelFeatureCheck(headString) THEN [fr EXCEPT !.pc = "ret"]
        ELSE IF headString \in {W_AUTHORS, W_TITLE, W_JOURNAL, W_PUBMED, W_REMARK}
        THEN IF j.panic THEN [fr EXCEPT !.pc = "panic"]
             ELSE [fr EXCEPT
                     !.reference = next,
                     !.numSubLine = n + 1,
                     !.from = @ \cup (n..(n + j.used)),
                     !.touched = IF next # fr.reference THEN @ \cup {n} ELSE @]
        ELSE [fr EXCEPT !.numSubLine = n + 1]

RECURSIVE refRun(_, _)
refRun(fr, subLines) ==
    IF fr.pc # "loop" THEN fr
    ELSE IF fr.numSubLine >= Len(subLines) THEN [fr EXCEPT !.pc = "ret"]
    ELSE refRun(refStep(fr, subLines), subLines)

getReference(splitLine, subLines) ==
    LET fr == refRun(refEnter(splitLine), subLines)
    IN  [panic |-> fr.pc = "panic", val |-> fr.reference]

----------------------------------------------------------------------------
\* getFeatures.  The frame holds the locals: the cursor lineIndex, the line
\* last read, the features so far, the feature and the qualifier being built.
\* used is the set of line indices whose text went into a feature; err says
\* which index a panic was about: "lines" (lines[lineIndex] past the end of
\* the array) or "column" (a column past the end of a line).

DQuote == "\""

EmptyMap == [k \in {} |-> <<>>]

\* m[k] = v, as a Go map assignment: a new key is added, an old one overwritten
MapSet(m, k, v) == [x \in (DOMAIN m) \cup {k} |-> IF x = k THEN v ELSE m[x]]

NoFeature == [Type |-> <<>>, Location |-> <<>>, Attributes |-> EmptyMap]

gfEnter ==
    [pc |-> "outer", err |-> "", lineIndex |-> 0, line |-> <<>>,
     features |-> <<>>, feature |-> NoFeature, qualifier |-> <<>>,
     used |-> {}]

gfPanic(fr, what) == [fr EXCEPT !.pc = "panic", !.err = what]

\* lineIndex++ ; line = lines[lineIndex], then on to position next
gfAdvance(fr, ls, next) ==
    LET i == fr.lineIndex + 1
    IN  IF i >= Len(ls)
        THEN gfPanic([fr EXCEPT !.lineIndex = i], "lines")
        ELSE [fr EXCEPT !.lineIndex = i, !.line = ls[i + 1], !.pc = next]

\* the outer loop without its break
featureBreakRemoved(l) == Ok(FALSE)

\* the break at the head of the outer loop:
\* quickMetaCheck(line) || !quickFeatureCheck(line)
featureBreak(l) ==
    LET m == quickMetaCheck(l)
        f == quickFeatureCheck(l)
    IN  IF m.panic THEN PanicBool
        ELSE IF m.val THEN Ok(TRUE)
        ELSE IF f.panic THEN PanicBool
        ELSE Ok(~f.val)

\* the head of the outer loop: the loop test, the break, the feature
\* declaration line, the bump to the next line
gfOuter(fr, ls) ==
    IF fr.lineIndex >= Len(ls) THEN [fr EXCEPT !.pc = "ret"]
    ELSE
        LET l == ls[fr.lineIndex + 1]
            b == featureBreak(l)
            splitLine == Split(TrimSpace(l), " ")
            feature == [Type |-> TrimSpace(splitLine[1]),
                        Location |-> TrimSpace(splitLine[Len(splitLine)]),
                        Attributes |-> EmptyMap]
        IN  IF b.panic THEN gfPanic([fr EXCEPT !.line = l], "column")
            ELSE IF b.val THEN [fr EXCEPT !.line = l, !.pc = "ret"]
            ELSE gfAdvance(
                    [fr EXCEPT !.line = l, !.feature = feature,
                               !.qualifier = <<>>,
                               !.used = @ \cup {fr.lineIndex}],
                    ls, "qual")

\* the head of the qualifier loop: break (and append the feature) unless the
\* line is a qualifier, else take it and bump to the next line
gfQual(fr, ls) ==
    LET q == quickQualifierCheck(fr.line)
    IN  IF q.panic THEN gfPanic(fr, "column")
        ELSE IF ~q.val
        THEN [fr EXCEPT !.features = Append(@, fr.feature), !.pc = "outer"]
        ELSE gfAdvance(
                [fr EXCEPT !.qualifier = fr.line,
                           !.used = @ \cup {fr.lineIndex}],
                ls, "sub")

\* the qualifier text split into label and value
attributeOf(qualifier) ==
    LET attributeSplit == Split(RemoveChars(qualifier, {DQuote, "/", "\n"}), "=")
    IN  [label |-> TrimSpace(attributeSplit[1]),
         value |-> IF Len(attributeSplit) < 2 THEN <<>>
                   ELSE TrimSpace(attributeSplit[2])]

\* the qualifier sub-line loop: break (and add the qualifier to the feature)
\* unless the line continues the qualifier, else append it and bump
gfSub(fr, ls) ==
    LET s == quickQualifierSubLineCheck(fr.line)
        a == attributeOf(fr.qualifier)
    IN  IF s.panic THEN gfPanic(fr, "column")
        ELSE IF ~s.val
        THEN [fr EXCEPT
                !.feature.Attributes = MapSet(@, a.label, a.value),
                !.pc = "qual"]
        ELSE gfAdvance(
                [fr EXCEPT !.qualifier = @ \o TrimSpace(fr.line),
                           !.used = @ \cup {fr.lineIndex}],
                ls, "sub")

gfStep(fr, ls) ==
    CASE fr.pc = "outer" -> gfOuter(fr, ls)
      [] fr.pc = "qual" -> gfQual(fr, ls)
      [] fr.pc = "sub" -> gfSub(fr, ls)
      [] OTHER -> fr

RECURSIVE gfRun(_, _)
gfRun(fr, ls) ==
    IF fr.pc \in {"ret", "panic"} THEN fr ELSE gfRun(gfStep(fr, ls), ls)

getFeatures(ls) ==
    LET fr == gfRun(gfEnter, ls)
    IN  [panic |-> fr.pc = "panic", val |-> fr.features]

----------------------------------------------------------------------------
\* Lines of the pools, by layout.

\* a keyword at column 0 and, when there is one, its text after pad blanks
TopLine(keyword, pad, text) ==
    IF text = <<>> /\ pad = 0 THEN keyword ELSE keyword \o Sp(pad) \o text

\* a sub-level keyword at column 2 and its text from column 12
SubLine(keyword, text) == Sp(2) \o keyword \o Sp(10 - Len(keyword)) \o text

\* a continuation line: text from column 12
ContLine(text) == Sp(12) \o text

----------------------------------------------------------------------------
\* SpecJoin: ParseGbk's call of joinSubLines for a DEFINITION, ACCESSION,
\* VERSION or KEYWORDS line: splitLine is the line split at every blank,
\* subLines are the lines after it.

JoinHeadLines ==
    {TopLine(W_DEFINITION, 1, <<"d">>),
     TopLine(W_DEFINITION, 2, <<"a"," "," ","b"," ">>),
     TopLine(W_KEYWORDS, 0, <<>>)}

JoinPool ==
    {ContLine(<<"c">>),
     ContLine(<<"e"," ","f"," ">>),
     ContLine(<<>>),
     Sp(6) \o <<"g">>,
     SubLine(W_ORGANISM, <<"o">>),
     TopLine(W_ACCESSION, 1, <<"h">>),
     Sp(2) \o <<"x">>,
     <<>>}

LineArrays(pool, n) == UNION {[1..k -> pool] : k \in 0..n}

InitJoin ==
    /\ line \in JoinHeadLines
    /\ lines \in LineArrays(JoinPool, MaxJoinLines)
    /\ pc = "join"
    /\ ret = NoRet
    /\ gf = NoFrame
    /\ ref = NoFrame
    /\ numLine = 0
    /\ meta = EmptyMeta
    /\ features = <<>>
    /\ sequence = <<>>

CallJoinSubLines ==
    /\ pc = "join"
    /\ ret' = joinSubLines(Split(line, " "), lines)
    /\ pc' = "joinDone"
    /\ UNCHANGED <<lines, line, gf, ref, numLine, meta, features, sequence>>

NextJoin == CallJoinSubLines

SpecJoin == InitJoin /\ [][NextJoin]_vars

\* the line is a plain continuation line: columns 0 and 5 exist and are blank
PlainContinuation(l) ==
    Len(l) > subMetaIndex /\ Col(l, metaIndex) = " " /\ Col(l, subMetaIndex) = " "

\* the number of consecutive plain continuation lines at the head of ls
ContinuationRun(ls) ==
    CHOOSE k \in 0..Len(ls) :
        /\ \A i \in 1..k : PlainContinuation(ls[i])
        /\ (k = Len(ls) \/ ~PlainContinuation(ls[k + 1]))

\* the text of a keyword line after its keyword (its first blank), trimmed
FieldText(l) ==
    LET i == IndexOf(l, " ")
    IN  IF i = 0 THEN <<>> ELSE TrimSpace(SubSeq(l, i + 1, Len(l)))

\* the field text and the trimmed text of the continuation run, in order
Fragments(l, ls) ==
    <<FieldText(l)>> \o [i \in 1..ContinuationRun(ls) |-> TrimSpace(ls[i])]

----------------------------------------------------------------------------
\* SpecSource: ParseGbk's call of getSourceOrganism for a SOURCE line.

SourceHeadLines == {TopLine(W_SOURCE, 6, <<"s">>), TopLine(W_SOURCE, 0, <<>>)}

SourcePool ==
    {SubLine(W_ORGANISM, <<"o">>),
     ContLine(<<"c">>),
     ContLine(W_ORGANISM \o <<" ", "p">>),
     SubLine(W_AUTHORS, <<"a">>),
     TopLine(W_REFERENCE, 3, <<"1">>),
     TopLine(W_COMMENT, 5, <<"x">>),
     <<>>}

InitSource ==
    /\ line \in SourceHeadLines
    /\ lines \in LineArrays(SourcePool, MaxSourceLines)
    /\ pc = "source"
    /\ ret = NoRet
    /\ gf = NoFrame
    /\ ref = NoFrame
    /\ numLine = 0
    /\ meta = EmptyMeta
    /\ features = <<>>
    /\ sequence = <<>>

CallGetSourceOrganism ==
    /\ pc = "source"
    /\ ret' = getSourceOrganism(Split(line, " "), lines)
    /\ pc' = "sourceDone"
    /\ UNCHANGED <<lines, line, gf, ref, numLine, meta, features, sequence>>

NextSource == CallGetSourceOrganism

SpecSource == InitSource /\ [][NextSource]_vars

\* the first white-space-delimited token of a line
HeadToken(l) == Split(TrimSpace(l), " ")[1]

\* the 0-based index of the first line whose column 0 is non-blank, Len(ls)
\* when there is none
FirstTopLevel(ls) ==
    IF \E i \in 1..Len(ls) : NonBlankAt(ls[i], metaIndex)
    THEN (CHOOSE i \in 1..Len(ls) :
            /\ NonBlankAt(ls[i], metaIndex)
            /\ \A j \in 1..(i - 1) : ~NonBlankAt(ls[j], metaIndex)) - 1
    ELSE Len(ls)

\* C7: getSourceOrganism takes organism text only from an ORGANISM
\* sub-record: when the returned organism is non-empty, a line whose first
\* token is ORGANISM stands in the block (before the next top-level line),
\* and the line organism collection started at is not a top-level line.
C7_OrganismOnlyFromOrganismLine ==
    (pc = "sourceDone" /\ ~ret.panic) =>
        /\ ret.organism # <<>> =>
              \E i \in 1..FirstTopLevel(lines) : HeadToken(lines[i]) = W_ORGANISM
        /\ ret.orgLine >= 0 => ~NonBlankAt(lines[ret.orgLine + 1], metaIndex)

----------------------------------------------------------------------------
\* SpecRef: ParseGbk's call of getReference for a REFERENCE line, one action
\* for the statements before the loop, one per iteration, one for the return
\* at the end of the sub-lines.

W_MEDLINE == <<"M","E","D","L","I","N","E">>

RefHeadLines ==
    {TopLine(W_REFERENCE, 3, <<"1"," "," ","(","b",")">>),
     TopLine(W_REFERENCE, 0, <<>>)}

RefPool ==
    {SubLine(W_AUTHORS, <<"a">>),
     SubLine(W_TITLE, <<"t">>),
     SubLine(W_JOURNAL, <<"j">>),
     SubLine(W_PUBMED, <<"9">>),
     SubLine(W_REMARK, <<"r">>),
     SubLine(W_MEDLINE, <<"m">>),
     ContLine(<<"c">>),
     ContLine(W_SOURCE \o <<" ", "z">>),
     TopLine(W_COMMENT, 5, <<"x">>),
     TopLine(W_FEATURES, 0, <<>>),
     <<>>}

InitRef ==
    /\ line \in RefHeadLines
    /\ lines \in LineArrays(RefPool, MaxRefLines)
    /\ pc = "refCall"
    /\ ref = NoFrame
    /\ ret = NoRet
    /\ gf = NoFrame
    /\ numLine = 0
    /\ meta = EmptyMeta
    /\ features = <<>>
    /\ sequence = <<>>

RefCall ==
    /\ pc = "refCall"
    /\ ref' = refEnter(Split(line, " "))
    /\ pc' = "refLoop"
    /\ UNCHANGED <<lines, line, ret, gf, numLine, meta, features, sequence>>

RefIter ==
    /\ pc = "refLoop"
    /\ ref.numSubLine < Len(lines)
    /\ ref' = refStep(ref, lines)
    /\ pc' = CASE ref'.pc = "loop" -> "refLoop"
               [] ref'.pc = "ret" -> "refDone"
               [] OTHER -> "refPanic"
    /\ UNCHANGED <<lines, line, ret, gf, numLine, meta, features, sequence>>

RefExit ==
    /\ pc = "refLoop"
    /\ ref.numSubLine >= Len(lines)
    /\ ref' = [ref EXCEPT !.pc = "ret"]
    /\ pc' = "refDone"
    /\ UNCHANGED <<lines, line, ret, gf, numLine, meta, features, sequence>>

NextRef == RefCall \/ RefIter \/ RefExit

SpecRef == InitRef /\ [][NextRef]_vars

RefVocabulary == {W_AUTHORS, W_TITLE, W_JOURNAL, W_PUBMED, W_REMARK}

\* the 0-based index of the first line that begins at column 0 with one of
\* the nine top-level keywords as its first token, Len(ls) when there is none
FirstTopKeyword(ls) ==
    IF \E i \in 1..Len(ls) :
            NonBlankAt(ls[i], metaIndex) /\ HeadToken(ls[i]) \in genbankTopLevelFeatures
    THEN (CHOOSE i \in 1..Len(ls) :
            /\ NonBlankAt(ls[i], metaIndex)
            /\ HeadToken(ls[i]) \in genbankTopLevelFeatures
            /\ \A j \in 1..(i - 1) :
                ~(NonBlankAt(ls[j], metaIndex)
                  /\ HeadToken(ls[j]) \in genbankTopLevelFeatures)) - 1
    ELSE Len(ls)

InGetReference == pc \in {"refLoop", "refDone", "refPanic"}

\* C9 as stated: the scan stops at the next line that begins at column 0, so
\* no line at or after that line sets or overwrites Authors, Title, Journal,
\* PubMed or Remark, and a sub-line whose first token is none of the five
\* sub-level keywords leaves the Reference unchanged.
C9_StopsAtColumnZeroLine ==
    InGetReference =>
        /\ \A i \in ref.from : i < FirstTopLevel(lines)
        /\ \A i \in ref.touched : HeadToken(lines[i + 1]) \in RefVocabulary

\* C9 amended: the scan stops at the next line that begins at column 0 with
\* one of the nine top-level keywords as its first token (a column-0 line
\* with another first token does not stop it), so no line at or after that
\* keyword line sets or overwrites Authors, Title, Journal, PubMed or Remark,
\* and a sub-line whose first token is none of the five sub-level keywords
\* leaves the Reference unchanged.
C9_StopsAtTopLevelKeyword ==
    InGetReference =>
        /\ ref.numSubLine <= FirstTopKeyword(lines)
        /\ \A i \in ref.from : i < FirstTopKeyword(lines)
        /\ \A i \in ref.touched : HeadToken(lines[i + 1]) \in RefVocabulary

\* C9 witness: the scan passed a COMMENT line at column 0, set Authors from
\* the sub-line after it and returned at the FEATURES line
C9_Witness ==
    /\ pc = "refDone"
    /\ lines = <<TopLine(W_COMMENT, 5, <<"x">>), SubLine(W_AUTHORS, <<"a">>),
                 W_FEATURES>>
    /\ FirstTopLevel(lines) = 0
    /\ FirstTopKeyword(lines) = 2
    /\ ref.numSubLine = 2
    /\ ref.from = {1}
    /\ ref.reference.Authors = <<"a">>

----------------------------------------------------------------------------
\* SpecFeat: ParseGbk's call of getFeatures with the lines after FEATURES,
\* one action per position of the nested loops.

W_gene == <<"g","e","n","e">>
W_pseudo == <<"p","s","e","u","d","o">>

\* a feature declaration line: the type at column 5, the location at column 21
FeatLine(type, location) == Sp(5) \o type \o Sp(16 - Len(type)) \o location

\* a qualifier line or qualifier continuation line: text from column 21
QualLine(text) == Sp(21) \o text

FeatPool ==
    {FeatLine(W_gene, <<"1",".",".","2">>),
     QualLine(<<"/">> \o W_gene \o <<"=", DQuote, "x", DQuote>>),
     QualLine(<<"/">> \o W_pseudo),
     QualLine(<<"=", "y", DQuote>>),
     W_ORIGIN,
     Sp(3),
     <<>>}

InitFeat ==
    /\ lines \in LineArrays(FeatPool, MaxFeatLines)
    /\ pc = "featCall"
    /\ gf = NoFrame
    /\ line = <<>>
    /\ ret = NoRet
    /\ ref = NoFrame
    /\ numLine = 0
    /\ meta = EmptyMeta
    /\ features = <<>>
    /\ sequence = <<>>

GfPosition(fr) ==
    CASE fr.pc = "ret" -> "featDone"
      [] fr.pc = "panic" -> "featPanic"
      [] OTHER -> "featLoop"

GfCall ==
    /\ pc = "featCall"
    /\ gf' = gfEnter
    /\ pc' = "featLoop"
    /\ UNCHANGED <<lines, line, ret, ref, numLine, meta, features, sequence>>

GfOuter ==
    /\ pc = "featLoop"
    /\ gf.pc = "outer"
    /\ gf' = gfOuter(gf, lines)
    /\ pc' = GfPosition(gf')
    /\ UNCHANGED <<lines, line, ret, ref, numLine, meta, features, sequence>>

GfQual ==
    /\ pc = "featLoop"
    /\ gf.pc = "qual"
    /\ gf' = gfQual(gf, lines)
    /\ pc' = GfPosition(gf')
    /\ UNCHANGED <<lines, line, ret, ref, numLine, meta, features, sequence>>

GfSub ==
    /\ pc = "featLoop"
    /\ gf.pc = "sub"
    /\ gf' = gfSub(gf, lines)
    /\ pc' = GfPosition(gf')
    /\ UNCHANGED <<lines, line, ret, ref, numLine, meta, features, sequence>>

NextFeat == GfCall \/ GfOuter \/ GfQual \/ GfSub

SpecFeat == InitFeat /\ [][NextFeat]_vars

InGetFeatures == pc \in {"featLoop", "featDone", "featPanic"}

\* C2: getFeatures never consumes a top-level line or anything after it: the
\* cursor never passes the index of the first line whose column 0 is
\* non-blank, and no Type, Location or Attributes text comes from a line at
\* or after that index.
C2_CursorStopsAtTopLevel ==
    InGetFeatures =>
        /\ gf.lineIndex <= FirstTopLevel(lines)
        /\ \A i \in gf.used : i < FirstTopLevel(lines)

\* C2 witness: getFeatures returned one feature with its qualifier, its
\* cursor on an ORIGIN line that has a feature declaration line after it
C2_Witness ==
    /\ pc = "featDone"
    /\ Len(lines) = 4
    /\ lines[3] = W_ORIGIN
    /\ lines[4] = FeatLine(W_gene, <<"1",".",".","2">>)
    /\ gf.lineIndex = 2
    /\ gf.used = {0, 1}
    /\ Len(gf.features) = 1
    /\ gf.features[1].Type = W_gene
    /\ DOMAIN gf.features[1].Attributes = {W_pseudo}

\* C3: end of input is an implicit block terminator: getFeatures never reads
\* lines[i] with i >= len(lines); at the end of the lines it returns the
\* features accumulated so far.
C3_EndOfInputTerminates ==
    InGetFeatures => ~(gf.pc = "panic" /\ gf.err = "lines")

\* the qualifier text without quote and slash characters, cut at its first =
FirstEq(q) == IndexOf(RemoveChars(q, {DQuote, "/", "\n"}), "=")
KeyAtFirstEq(q) ==
    LET t == RemoveChars(q, {DQuote, "/", "\n"})
    IN  TrimSpace(IF FirstEq(q) = 0 THEN t ELSE SubSeq(t, 1, FirstEq(q) - 1))
ValueAtFirstEq(q) ==
    LET t == RemoveChars(q, {DQuote, "/", "\n"})
    IN  IF FirstEq(q) = 0 THEN <<>>
        ELSE TrimSpace(SubSeq(t, FirstEq(q) + 1, Len(t)))

\* C6: an assembled qualifier text, quote and slash characters removed, is
\* split at its first = only: the key is the trimmed text before it, the
\* value the trimmed text after it (later = characters kept), and a
\* qualifier without = gets the empty value.  (Position qual with a
\* qualifier held is the state right after the attribute was stored.)
C6_SplitOnFirstEqualsOnly ==
    (InGetFeatures /\ gf.pc = "qual" /\ gf.qualifier # <<>>) =>
        /\ KeyAtFirstEq(gf.qualifier) \in DOMAIN gf.feature.Attributes
        /\ gf.feature.Attributes[KeyAtFirstEq(gf.qualifier)]
              = ValueAtFirstEq(gf.qualifier)

----------------------------------------------------------------------------
\* getSequence: the sub-lines written to one buffer, then every character
\* that is not an ASCII letter removed.

RECURSIVE Concat(_)
Concat(ls) == IF ls = <<>> THEN <<>> ELSE Head(ls) \o Concat(Tail(ls))

RECURSIVE KeepChars(_, _)
KeepChars(s, class) ==
    IF s = <<>> THEN <<>>
    ELSE IF Head(s) \in class THEN <<Head(s)>> \o KeepChars(Tail(s), class)
    ELSE KeepChars(Tail(s), class)

\* getSequence keeping the lower-case letters only
getSequenceLowerCase(subLines) ==
    KeepChars(Concat(subLines),
              {"a","b","c","d","e","f","g","h","i","j","k","l","m","n","o",
               "p","q","r","s","t","u","v","w","x","y","z"})

getSequence(subLines) == KeepChars(Concat(subLines), Letters)

----------------------------------------------------------------------------
\* Spec: ParseGbk.  lines is the text split at every newline (never empty);
\* each action is one iteration of the scan for one case of the switch on
\* splitLine[0], the first blank-delimited token of lines[numLine].

GbkPool ==
    {LocusLine(8, W_linear, 1, 0, 0),
     TopLine(W_DEFINITION, 2, <<"d">>),
     TopLine(W_ACCESSION, 3, <<"a">>),
     TopLine(W_VERSION, 5, <<"v">>),
     TopLine(W_KEYWORDS, 4, <<"k">>),
     TopLine(W_SOURCE, 6, <<"s">>),
     TopLine(W_REFERENCE, 3, <<"1">>),
     W_FEATURES,
     W_ORIGIN,
     FeatLine(W_gene, <<"1",".",".","2">>),
     ContLine(<<"c">>),
     <<"/","/">>,
     <<>>}

GbkTexts == UNION {[1..k -> GbkPool] : k \in 1..MaxGbkLines}

Init ==
    /\ lines \in GbkTexts
    /\ numLine = 0
    /\ meta = EmptyMeta
    /\ features = <<>>
    /\ sequence = <<>>
    /\ pc = "scan"
    /\ line = <<>>
    /\ ret = NoRet
    /\ gf = NoFrame
    /\ ref = NoFrame

\* sequenceBreakFlag where the loop tests it: the flag is declared, and set
\* to false, inside the loop body right before the test, so the assignment
\* the ORIGIN case made in the iteration before is gone
sequenceBreakFlag == FALSE

splitLine == Split(lines[numLine + 1], " ")
subLines == SliceFrom(lines, numLine + 1)

\* the loop is at lines[numLine] and the switch takes the case of head
AtCase(head) ==
    /\ pc = "scan"
    /\ numLine < Len(lines)
    /\ ~sequenceBreakFlag
    /\ splitLine[1] = head

\* the end of an iteration: the cursor moves to the next line
NextLine ==
    /\ numLine' = numLine + 1
    /\ pc' = "scan"
    /\ UNCHANGED <<lines, line, ret, gf, ref>>

\* a panic in a block parser ends ParseGbk
Panic ==
    /\ pc' = "panic"
    /\ UNCHANGED <<lines, line, ret, gf, ref, numLine, meta, features, sequence>>

\* the "" case taking a line that begins with a blank as a continuation of
\* the definition
ScanBlankJoins ==
    /\ AtCase(<<>>)
    /\ meta' = [meta EXCEPT !.Definition =
                    TrimSpace(@ \o <<" ">> \o TrimSpace(lines[numLine + 1]))]
    /\ NextLine
    /\ UNCHANGED <<features, sequence>>

ScanBlank ==
    /\ AtCase(<<>>)
    /\ NextLine
    /\ UNCHANGED <<meta, features, sequence>>

ScanLocus ==
    /\ AtCase(W_LOCUS)
    /\ LET r == parseLocus(lines[numLine + 1])
       IN  IF r.panic THEN Panic
           ELSE /\ meta' = [meta EXCEPT !.Locus = r.val]
                /\ NextLine
                /\ UNCHANGED <<features, sequence>>

ScanDefinition ==
    /\ AtCase(W_DEFINITION)
    /\ LET r == joinSubLines(splitLine, subLines)
       IN  IF r.panic THEN Panic
           ELSE /\ meta' = [meta EXCEPT !.Definition = r.val]
                /\ NextLine
                /\ UNCHANGED <<features, sequence>>

ScanAccession ==
    /\ AtCase(W_ACCESSION)
    /\ LET r == joinSubLines(splitLine, subLines)
       IN  IF r.panic THEN Panic
           ELSE /\ meta' = [meta EXCEPT !.Accession = r.val]
                /\ NextLine
                /\ UNCHANGED <<features, sequence>>

ScanVersion ==
    /\ AtCase(W_VERSION)
    /\ LET r == joinSubLines(splitLine, subLines)
       IN  IF r.panic THEN Panic
           ELSE /\ meta' = [meta EXCEPT !.Version = r.val]
                /\ NextLine
                /\ UNCHANGED <<features, sequence>>

ScanKeywords ==
    /\ AtCase(W_KEYWORDS)
    /\ LET r == joinSubLines(splitLine, subLines)
       IN  IF r.panic THEN Panic
           ELSE /\ meta' = [meta EXCEPT !.Keywords = r.val]
                /\ NextLine
                /\ UNCHANGED <<features, sequence>>

ScanSource ==
    /\ AtCase(W_SOURCE)
    /\ LET r == getSourceOrganism(splitLine, subLines)
       IN  IF r.panic THEN Panic
           ELSE /\ meta' = [meta EXCEPT !.Source = r.source,
                                        !.Organism = r.organism]
                /\ NextLine
                /\ UNCHANGED <<features, sequence>>

\* the REFERENCE case putting the new reference in front of the list
ScanReferencePrepend ==
    /\ AtCase(W_REFERENCE)
    /\ LET r == getReference(splitLine, subLines)
       IN  IF r.panic THEN Panic
           ELSE /\ meta' = [meta EXCEPT !.References = <<r.val>> \o @]
                /\ NextLine
                /\ UNCHANGED <<features, sequence>>

ScanReference ==
    /\ AtCase(W_REFERENCE)
    /\ LET r == getReference(splitLine, subLines)
       IN  IF r.panic THEN Panic
           ELSE /\ meta' = [meta EXCEPT !.References = Append(@, r.val)]
                /\ NextLine
                /\ UNCHANGED <<features, sequence>>

ScanFeatures ==
    /\ AtCase(W_FEATURES)
    /\ LET r == getFeatures(subLines)
       IN  IF r.panic THEN Panic
           ELSE /\ features' = r.val
                /\ NextLine
                /\ UNCHANGED <<meta, sequence>>

ScanOrigin ==
    /\ AtCase(W_ORIGIN)
    /\ sequence' = getSequence(subLines)
    /\ NextLine
    /\ UNCHANGED <<meta, features>>

ScanDefault ==
    /\ pc = "scan"
    /\ numLine < Len(lines)
    /\ ~sequenceBreakFlag
    /\ splitLine[1] \notin genbankTopLevelFeatures \cup {<<>>}
    /\ NextLine
    /\ UNCHANGED <<meta, features, sequence>>

\* the loop ends at the end of the lines; the model is returned
ScanEnd ==
    /\ pc = "scan"
    /\ numLine >= Len(lines)
    /\ pc' = "done"
    /\ UNCHANGED <<lines, line, ret, gf, ref, numLine, meta, features, sequence>>

Next ==
    \/ ScanBlank
    \/ ScanLocus
    \/ ScanDefinition
    \/ ScanAccession
    \/ ScanVersion
    \/ ScanKeywords
    \/ ScanSource
    \/ ScanReference
    \/ ScanFeatures
    \/ ScanOrigin
    \/ ScanDefault
    \/ ScanEnd

Spec == Init /\ [][Next]_vars

\* a line whose first blank-delimited token is ORIGIN has been dispatched:
\* the scan visits every line in order, so it is a line before the cursor
OriginDispatched ==
    \E i \in 1..numLine : Split(lines[i], " ")[1] = W_ORIGIN

\* C1: once an ORIGIN line has been dispatched no later line is interpreted
\* as a top-level keyword: no step after it changes a field of Meta,
\* Features or Sequence.
C1_NothingInterpretedAfterOrigin ==
    [][OriginDispatched =>
        (meta' = meta /\ features' = features /\ sequence' = sequence)]_vars

----------------------------------------------------------------------------
\* SpecOrder: ParseGbk on texts whose lines are REFERENCE lines, FEATURES
\* lines and feature declaration lines.  The switch takes
\* the cases "" (a line that begins with a blank), REFERENCE and FEATURES
\* only, so the scan is the actions of these cases and the end of the loop.

\* most lines of a text of SpecOrder
MaxOrderLines == 5

W_CDS == <<"C","D","S">>

OrderPool ==
    {TopLine(W_REFERENCE, 3, <<"1">>),
     TopLine(W_REFERENCE, 3, <<"2">>),
     W_FEATURES,
     FeatLine(W_gene, <<"1",".",".","2">>),
     FeatLine(W_CDS, <<"3",".",".","4">>)}

OrderTexts == UNION {[1..k -> OrderPool] : k \in 1..MaxOrderLines}

InitOrder ==
    /\ lines \in OrderTexts
    /\ numLine = 0
    /\ meta = EmptyMeta
    /\ features = <<>>
    /\ sequence = <<>>
    /\ pc = "scan"
    /\ line = <<>>
    /\ ret = NoRet
    /\ gf = NoFrame
    /\ ref = NoFrame

NextOrder ==
    \/ ScanBlank
    \/ ScanReference
    \/ ScanFeatures
    \/ ScanEnd

SpecOrder == InitOrder /\ [][NextOrder]_vars

\* the text of a line before its first blank, read off the line itself
FirstWord(l) ==
    IF \E i \in 1..Len(l) : l[i] = " "
    THEN SubSeq(l, 1, (CHOOSE i \in 1..Len(l) :
                          l[i] = " " /\ \A j \in 1..(i - 1) : l[j] # " ") - 1)
    ELSE l

\* the positions (from 1) of the lines the scan has dispatched, that is gone
\* past, whose first word is keyword
Dispatched(keyword) == {i \in 1..numLine : FirstWord(lines[i]) = keyword}

\* the k-th smallest element of a set of numbers, k from 1
KthOf(S, k) == CHOOSE x \in S : Cardinality({y \in S : y < x}) = k - 1

\* the greatest element of a non-empty set of numbers
LastOf(S) == CHOOSE x \in S : \A y \in S : y <= x

IsPrefix(a, b) == Len(a) <= Len(b) /\ SubSeq(b, 1, Len(a)) = a

\* a feature declaration line: column 0 blank, column 5 non-blank
IsDeclaration(l) == Len(l) > subMetaIndex /\ l[1] = " " /\ NonBlankAt(l, subMetaIndex)

\* the indices (from 0, into the lines after position p) of the feature
\* declaration lines getFeatures consumes when called at the FEATURES line
\* at position p
DeclarationsConsumed(p) ==
    LET ls == SliceFrom(lines, p)
    IN  {i \in gfRun(gfEnter, ls).used : IsDeclaration(ls[i + 1])}

\* References holds one Reference per dispatched REFERENCE line, the k-th
\* one the Reference of the k-th dispatched REFERENCE line
ReferencesInLineOrder ==
    LET R == Dispatched(W_REFERENCE)
    IN  /\ Len(meta.References) = Cardinality(R)
        /\ \A k \in 1..Cardinality(R) :
              LET p == KthOf(R, k)
              IN  /\ meta.References[k].Index = TokenAt(lines[p], 1)
                  /\ meta.References[k]
                        = getReference(Split(lines[p], " "),
                                       SliceFrom(lines, p)).val

\* Features holds one Feature per feature declaration line consumed in the
\* block of the FEATURES line at position p, the k-th one with the type and
\* the location of the k-th such line
FeaturesInLineOrder(p) ==
    LET ls == SliceFrom(lines, p)
        D == DeclarationsConsumed(p)
    IN  /\ Len(features) = Cardinality(D)
        /\ \A k \in 1..Cardinality(D) :
              LET l == ls[KthOf(D, k) + 1]
              IN  /\ features[k].Type = TokenAt(l, 0)
                  /\ features[k].Location = TokenAt(l, NumTokens(l) - 1)

\* Features is the list of some dispatched FEATURES block, in line order
FeaturesOfABlock ==
    IF Dispatched(W_FEATURES) = {} THEN features = <<>>
    ELSE \E p \in Dispatched(W_FEATURES) : FeaturesInLineOrder(p)

\* Features is the list of the last dispatched FEATURES block, in line order
FeaturesOfLastBlock ==
    IF Dispatched(W_FEATURES) = {} THEN features = <<>>
    ELSE FeaturesInLineOrder(LastOf(Dispatched(W_FEATURES)))

\* C11 as stated: output order equals input line order: References holds one
\* Reference per dispatched REFERENCE line, the k-th from the k-th REFERENCE
\* line, Features holds the features of the FEATURES block, the k-th from the
\* k-th feature declaration line consumed, and no step reorders, duplicates
\* or drops an element that is already in either list.
C11_OrderKeptNothingDropped ==
    /\ [](ReferencesInLineOrder /\ FeaturesOfABlock)
    /\ [][/\ IsPrefix(meta.References, meta'.References)
          /\ IsPrefix(features, features')]_vars

\* C11 as the code has it: References holds one Reference per dispatched
\* REFERENCE line in line order and only ever grows at its end; Features
\* holds the features of the last dispatched FEATURES line's block in the
\* order of the declaration lines consumed, and changes only in the step
\* that dispatches a FEATURES line, which replaces the whole list.
C11_OrderKeptLastFeaturesBlock ==
    /\ [](ReferencesInLineOrder /\ FeaturesOfLastBlock)
    /\ [][/\ IsPrefix(meta.References, meta'.References)
          /\ features' # features =>
                /\ numLine' = numLine + 1
                /\ FirstWord(lines[numLine + 1]) = W_FEATURES]_vars

\* C11 witness: the scan is at the end of FEATURES, CDS, gene, REFERENCE 2,
\* REFERENCE 1: the two features and the two references stand in line
\* order, after the revisited feature lines and the later steps left them in
\* place
C11_Witness ==
    /\ pc = "done"
    /\ lines = <<W_FEATURES,
                 FeatLine(W_CDS, <<"3",".",".","4">>),
                 FeatLine(W_gene, <<"1",".",".","2">>),
                 TopLine(W_REFERENCE, 3, <<"2">>),
                 TopLine(W_REFERENCE, 3, <<"1">>)>>
    /\ Len(features) = 2
    /\ features[1].Type = W_CDS
    /\ features[2].Type = W_gene
    /\ Len(meta.References) = 2
    /\ meta.References[1].Index = <<"2">>
    /\ meta.References[2].Index = <<"1">>

----------------------------------------------------------------------------
\* BuildGff and ParseGff.  The GFF text is one character sequence with "\n"
\* between its lines and "\t" between the columns of a feature line.

NL == "\n"
TAB == "\t"

S_gffVersion == <<"#","#","g","f","f","-","v","e","r","s","i","o","n"," ">>
S_sequenceRegion == <<"#","#","s","e","q","u","e","n","c","e","-","r","e","g","i","o","n"," ">>
S_unknown == <<"u","n","k","n","o","w","n">>
S_feature == <<"f","e","a","t","u","r","e">>
S_endOfFeatures == <<"#","#","#">>
S_FASTA == <<"#","#","F","A","S","T","A">>

Digits == <<"0","1","2","3","4","5","6","7","8","9">>

\* strconv.Itoa
RECURSIVE ItoaNat(_)
ItoaNat(n) ==
    IF n < 10 THEN <<Digits[n + 1]>>
    ELSE ItoaNat(n \div 10) \o <<Digits[(n % 10) + 1]>>

Itoa(n) == IF n < 0 THEN <<"-">> \o ItoaNat(-n) ELSE ItoaNat(n)

IsDigit(c) == \E d \in 1..Len(Digits) : Digits[d] = c

DigitVal(c) == (CHOOSE d \in 1..Len(Digits) : Digits[d] = c) - 1

RECURSIVE AtoiNat(_)
AtoiNat(s) ==
    IF s = <<>> THEN 0
    ELSE AtoiNat(SubSeq(s, 1, Len(s) - 1)) * 10 + DigitVal(s[Len(s)])

\* strconv.Atoi with its error dropped: an optional sign and one or more
\* digits give the number, anything else gives 0
Atoi(s) ==
    LET signed == s # <<>> /\ s[1] \in {"+", "-"}
        body == IF signed THEN Tail(s) ELSE s
    IN  IF body = <<>> \/ \E i \in 1..Len(body) : ~IsDigit(body[i]) THEN 0
        ELSE IF signed /\ s[1] = "-" THEN 0 - AtoiNat(body)
        ELSE AtoiNat(body)

\* the byte order of the letters, for sort.Strings
AsciiOrder ==
    <<"A","B","C","D","E","F","G","H","I","J","K","L","M","N","O","P","Q","R",
      "S","T","U","V","W","X","Y","Z","a","b","c","d","e","f","g","h","i","j",
      "k","l","m","n","o","p","q","r","s","t","u","v","w","x","y","z">>

Ord(c) == CHOOSE i \in 1..Len(AsciiOrder) : AsciiOrder[i] = c

\* a <= b in Go's string order
RECURSIVE StrLeq(_, _)
StrLeq(a, b) ==
    IF a = <<>> THEN TRUE
    ELSE IF b = <<>> THEN FALSE
    ELSE IF Head(a) # Head(b) THEN Ord(Head(a)) < Ord(Head(b))
    ELSE StrLeq(Tail(a), Tail(b))

\* sort.Strings on the keys of a map
RECURSIVE sortStrings(_)
sortStrings(keys) ==
    IF keys = {} THEN <<>>
    ELSE LET least == CHOOSE k \in keys : \A x \in keys : StrLeq(k, x)
         IN  <<least>> \o sortStrings(keys \ {least})

\* the letters written after every letter whose count is a multiple of
\* lettersPerLine get a newline
lettersPerLine == 70

\* BuildGff's first line
gffVersionString(annotatedSequence) ==
    IF annotatedSequence.Meta.GffVersion # <<>>
    THEN S_gffVersion \o annotatedSequence.Meta.GffVersion \o <<NL>>
    ELSE S_gffVersion \o <<"3", " ", NL>>

\* BuildGff's second line
gffRegionString(annotatedSequence) ==
    LET m == annotatedSequence.Meta
        name == IF m.Name # <<>> THEN m.Name
                ELSE IF m.Locus.Name # <<>> THEN m.Locus.Name
                ELSE IF m.Accession # <<>> THEN m.Accession
                ELSE S_unknown
        start == IF m.RegionStart # 0 THEN Itoa(m.RegionStart) ELSE <<"1">>
        end == IF m.RegionEnd # 0 THEN Itoa(m.RegionEnd)
               ELSE IF m.Locus.SequenceLength # <<>>
               THEN KeepChars(m.Locus.SequenceLength,
                              {Digits[d] : d \in 1..Len(Digits)})
               ELSE <<"1">>
    IN  S_sequenceRegion \o name \o <<" ">> \o start \o <<" ">> \o end \o <<NL>>

\* key=value; for every key in order
RECURSIVE gffAttributeString(_, _)
gffAttributeString(keys, attributes) ==
    IF keys = <<>> THEN <<>>
    ELSE Head(keys) \o <<"=">> \o attributes[Head(keys)] \o <<";">>
            \o gffAttributeString(Tail(keys), attributes)

\* BuildGff's line of one feature
gffFeatureString(feature, annotatedSequence) ==
    LET featureName == IF feature.Name # <<>> THEN feature.Name
                       ELSE annotatedSequence.Meta.Name
        featureSource == IF feature.Source # <<>> THEN feature.Source
                         ELSE S_feature
        featureType == IF feature.Type # <<>> THEN feature.Type ELSE S_unknown
        all == gffAttributeString(sortStrings(DOMAIN feature.Attributes),
                                  feature.Attributes)
        featureAttributes == IF Len(all) > 0 THEN SubSeq(all, 1, Len(all) - 1)
                             ELSE all
    IN  featureName \o <<TAB>> \o featureSource \o <<TAB>> \o featureType
            \o <<TAB>> \o Itoa(feature.Start) \o <<TAB>> \o Itoa(feature.End)
            \o <<TAB>> \o feature.Score \o <<TAB>> \o feature.Strand
            \o <<TAB>> \o feature.Phase \o <<TAB>> \o featureAttributes
            \o <<NL>>

RECURSIVE gffFeatureLines(_, _)
gffFeatureLines(fs, annotatedSequence) ==
    IF fs = <<>> THEN <<>>
    ELSE gffFeatureString(Head(fs), annotatedSequence)
            \o gffFeatureLines(Tail(fs), annotatedSequence)

\* the letters from the one at letterIndex (counted from 1) on, a newline
\* after each whose count is a multiple of lettersPerLine
RECURSIVE gffLetters(_, _)
gffLetters(letters, letterIndex) ==
    IF letterIndex > Len(letters) THEN <<>>
    ELSE (IF letterIndex % lettersPerLine = 0
          THEN <<letters[letterIndex], NL>>
          ELSE <<letters[letterIndex]>>)
            \o gffLetters(letters, letterIndex + 1)

BuildGff(annotatedSequence) ==
    gffVersionString(annotatedSequence)
        \o gffRegionString(annotatedSequence)
        \o gffFeatureLines(annotatedSequence.Features, annotatedSequence)
        \o S_endOfFeatures \o <<NL>>
        \o S_FASTA \o <<NL>>
        \o <<">">> \o annotatedSequence.Meta.Name \o <<NL>>
        \o gffLetters(annotatedSequence.Sequence.Sequence, 1)
        \o <<NL>>

\* ParseGff's locals.  panic: an index or a slice bound out of range.
gffLocals(m) ==
    [fn |-> "ParseGff", panic |-> FALSE, meta |-> m, records |-> <<>>,
     sequenceBuffer |-> <<>>, description |-> <<>>, fastaFlag |-> FALSE]

gffPanicked(fr) == [fr EXCEPT !.panic = TRUE]

NoGffMeta ==
    [GffVersion |-> <<>>, Name |-> <<>>, RegionStart |-> 0, RegionEnd |-> 0,
     Size |-> 0]

\* the statements before the loop: lines[0:2] and the two header lines
gffEnter(gffLines) ==
    IF Len(gffLines) < 2 THEN gffPanicked(gffLocals(NoGffMeta))
    ELSE
        LET versionSplit == Split(gffLines[1], " ")
            regionStringArray == Split(gffLines[2], " ")
        IN  IF Len(versionSplit) < 2 \/ Len(regionStringArray) < 4
            THEN gffPanicked(gffLocals(NoGffMeta))
            ELSE gffLocals(
                    [GffVersion |-> versionSplit[2],
                     Name |-> regionStringArray[2],
                     RegionStart |-> Atoi(regionStringArray[3]),
                     RegionEnd |-> Atoi(regionStringArray[4]),
                     Size |-> Atoi(regionStringArray[4])
                                - Atoi(regionStringArray[3])])

\* the attribute loop of a feature line, from attributeSlice[k] on
RECURSIVE gffAttributes(_, _, _)
gffAttributes(attributeSlice, k, attributes) ==
    IF k > Len(attributeSlice) THEN Ok(attributes)
    ELSE LET attributeSplit == Split(attributeSlice[k], "=")
         IN  IF Len(attributeSplit) < 2
             THEN [panic |-> TRUE, val |-> attributes]
             ELSE gffAttributes(attributeSlice, k + 1,
                     MapSet(attributes, attributeSplit[1], attributeSplit[2]))

\* the last branch of the loop: a feature line
gffRecord(l) ==
    LET fields == Split(l, TAB)
    IN  IF Len(fields) < 9 THEN [panic |-> TRUE, val |-> <<>>]
        ELSE LET a == gffAttributes(Split(fields[9], ";"), 1, EmptyMap)
             IN  [panic |-> a.panic,
                  val |-> [Name |-> fields[1], Source |-> fields[2],
                           Type |-> fields[3], Start |-> Atoi(fields[4]),
                           End |-> Atoi(fields[5]), Score |-> fields[6],
                           Strand |-> fields[7], Phase |-> fields[8],
                           Attributes |-> a.val]]

----------------------------------------------------------------------------
\* SpecGff: ParseGff(BuildGff(m)).  meta, features and sequence hold the
\* model m given to BuildGff, line the text BuildGff returned, lines that
\* text split at every newline, numLine the index of ParseGff's loop over
\* the lines, and ret ParseGff's locals and then its result.

\* most features of a model
MaxGffFeatures == 2

\* the sequences have up to MaxGffTail letters, and from one letter short of
\* a full line up to MaxGffTail letters past it
MaxGffTail == 2

W_ID == <<"I","D">>

GffMetas ==
    [Name : {<<>>, <<"n">>},
     GffVersion : {<<>>, <<"3">>},
     RegionStart : {0, 2},
     RegionEnd : {0, 12},
     Accession : {<<>>, <<"A">>},
     Locus : {EmptyLocus,
              [EmptyLocus EXCEPT !.Name = <<"l">>,
                                 !.SequenceLength = <<"1","0"," ","b","p">>]}]

GffFeaturePool ==
    {[Name |-> <<>>, Source |-> <<>>, Type |-> <<>>, Start |-> 0, End |-> 0,
      Score |-> <<>>, Strand |-> <<>>, Phase |-> <<>>, Attributes |-> EmptyMap],
     [Name |-> <<"s">>, Source |-> <<"p">>, Type |-> W_gene, Start |-> 1,
      End |-> 12, Score |-> <<".">>, Strand |-> <<"+">>, Phase |-> <<"0">>,
      Attributes |-> MapSet(EmptyMap, W_ID, <<"x">>)],
     [Name |-> <<>>, Source |-> <<>>, Type |-> W_CDS, Start |-> 3, End |-> 4,
      Score |-> <<>>, Strand |-> <<>>, Phase |-> <<>>,
      Attributes |-> MapSet(MapSet(EmptyMap, W_gene, <<"y">>), W_ID, <<"z">>)]}

GffFeatureLists == UNION {[1..k -> GffFeaturePool] : k \in 0..MaxGffFeatures}

\* n sequence letters, no two neighbours alike
GffLetters(n) == [i \in 1..n |-> <<"a","c","G","t">>[(i % 4) + 1]]

GffSequences ==
    {GffLetters(n) :
        n \in (0..MaxGffTail)
              \cup ((lettersPerLine - 1)..(lettersPerLine + MaxGffTail))}

InitGff ==
    /\ meta \in GffMetas
    /\ features \in GffFeatureLists
    /\ sequence \in GffSequences
    /\ pc = "gffBuild"
    /\ line = <<>>
    /\ lines = <<>>
    /\ numLine = 0
    /\ ret = NoRet
    /\ gf = NoFrame
    /\ ref = NoFrame

\* the model given to BuildGff
annotatedSequence ==
    [Meta |-> meta, Features |-> features,
     Sequence |-> [Description |-> <<>>, Sequence |-> sequence]]

GffBuild ==
    /\ pc = "gffBuild"
    /\ line' = BuildGff(annotatedSequence)
    /\ pc' = "gffParse"
    /\ UNCHANGED <<lines, ret, gf, ref, numLine, meta, features, sequence>>

\* ParseGff up to its loop
GffEnter ==
    /\ pc = "gffParse"
    /\ lines' = Split(line, NL)
    /\ ret' = gffEnter(lines')
    /\ numLine' = 0
    /\ pc' = IF ret'.panic THEN "gffPanic" ELSE "gffLoop"
    /\ UNCHANGED <<line, gf, ref, meta, features, sequence>>

\* the loop is at lines[numLine]
GffAt == pc = "gffLoop" /\ numLine < Len(lines)

gffLine == lines[numLine + 1]

GffNextLine ==
    /\ numLine' = numLine + 1
    /\ pc' = "gffLoop"
    /\ UNCHANGED <<lines, line, gf, ref, meta, features, sequence>>

GffPanic ==
    /\ ret' = gffPanicked(ret)
    /\ pc' = "gffPanic"
    /\ UNCHANGED <<lines, line, gf, ref, numLine, meta, features, sequence>>

\* line == "##FASTA"
GffFasta ==
    /\ GffAt
    /\ gffLine = S_FASTA
    /\ ret' = [ret EXCEPT !.fastaFlag = TRUE]
    /\ GffNextLine

\* len(line) == 0
GffEmptyLine ==
    /\ GffAt
    /\ gffLine = <<>>
    /\ ret' = ret
    /\ GffNextLine

\* line[0:2] on a line of one character: the slice bound is out of range
GffShortLine ==
    /\ GffAt
    /\ Len(gffLine) = 1
    /\ GffPanic

\* line[0:2] == "##"
GffDirective ==
    /\ GffAt
    /\ gffLine # S_FASTA
    /\ Len(gffLine) >= 2
    /\ SubSeq(gffLine, 1, 2) = <<"#", "#">>
    /\ ret' = ret
    /\ GffNextLine

\* the line is none of the above
GffData ==
    /\ GffAt
    /\ gffLine # S_FASTA
    /\ Len(gffLine) >= 2
    /\ SubSeq(gffLine, 1, 2) # <<"#", "#">>

\* fastaFlag == true && line[0:1] != ">"
GffSequenceLine ==
    /\ GffData
    /\ ret.fastaFlag
    /\ gffLine[1] # ">"
    /\ ret' = [ret EXCEPT !.sequenceBuffer = @ \o gffLine]
    /\ GffNextLine

\* fastaFlag == true && line[0:1] == ">"
GffDescription ==
    /\ GffData
    /\ ret.fastaFlag
    /\ gffLine[1] = ">"
    /\ ret' = [ret EXCEPT !.description = gffLine]
    /\ GffNextLine

\* else: a feature line
GffRecord ==
    /\ GffData
    /\ ~ret.fastaFlag
    /\ LET r == gffRecord(gffLine)
       IN  IF r.panic THEN GffPanic
           ELSE /\ ret' = [ret EXCEPT !.records = Append(@, r.val)]
                /\ GffNextLine

\* after the loop: the annotated sequence is returned
GffReturn ==
    /\ pc = "gffLoop"
    /\ numLine >= Len(lines)
    /\ ret' = [fn |-> "ParseGff", panic |-> FALSE, Meta |-> ret.meta,
               Features |-> ret.records,
               Sequence |-> [Description |-> ret.description,
                             Sequence |-> ret.sequenceBuffer]]
    /\ pc' = "gffDone"
    /\ UNCHANGED <<lines, line, gf, ref, numLine, meta, features, sequence>>

NextGff ==
    \/ GffBuild
    \/ GffEnter
    \/ GffFasta
    \/ GffEmptyLine
    \/ GffShortLine
    \/ GffDirective
    \/ GffSequenceLine
    \/ GffDescription
    \/ GffRecord
    \/ GffReturn

SpecGff == InitGff /\ [][NextGff]_vars

\* C12: the GFF3 round trip: for every model, ParseGff(BuildGff(m))
\* completes (no index or slice bound out of range) and returns as many
\* features as m has, each with the attribute keys and values of m's, an
\* empty score, strand or phase still empty, and the sequence letters of m.
C12_GffRoundTrip ==
    /\ pc # "gffPanic"
    /\ pc = "gffDone" =>
          /\ Len(ret.Features) = Len(features)
          /\ \A k \in 1..Len(features) :
                /\ k <= Len(ret.Features)
                /\ ret.Features[k].Attributes = features[k].Attributes
                /\ features[k].Score = <<>> => ret.Features[k].Score = <<>>
                /\ features[k].Strand = <<>> => ret.Features[k].Strand = <<>>
                /\ features[k].Phase = <<>> => ret.Features[k].Phase = <<>>
          /\ ret.Sequence.Sequence = sequence

----------------------------------------------------------------------------
\* SpecSeq: ParseGbk on an ORIGIN line and the lines after it.  The lines
\* after ORIGIN begin with a blank, a digit, a letter or a slash, or are
\* ORIGIN again, so the switch takes the cases "", ORIGIN and default.

\* most lines after the ORIGIN line
MaxSeqLines == 3

SeqPool ==
    {Sp(8) \o <<"1"," ","a","t","g","c"," ","A","T">>,
     <<"6","1"," ","a","c"," ","6","0">>,
     <<"g","T">>,
     Sp(2) \o <<"9"," ","n","*","-","N">>,
     <<"/","/">>,
     W_ORIGIN,
     <<>>}

SeqTexts == {<<W_ORIGIN>> \o ls : ls \in LineArrays(SeqPool, MaxSeqLines)}

InitSeq ==
    /\ lines \in SeqTexts
    /\ numLine = 0
    /\ meta = EmptyMeta
    /\ features = <<>>
    /\ sequence = <<>>
    /\ pc = "scan"
    /\ line = <<>>
    /\ ret = NoRet
    /\ gf = NoFrame
    /\ ref = NoFrame

NextSeq ==
    \/ ScanBlank
    \/ ScanOrigin
    \/ ScanDefault
    \/ ScanEnd

SpecSeq == InitSeq /\ [][NextSeq]_vars

\* the positions of the ASCII letters of a text
LetterPositions(t) == {i \in 1..Len(t) : t[i] \in Letters}

\* s is exactly the letters of the lines ls: every character of s is an
\* ASCII letter, and the k-th character of s is the k-th letter of the lines
\* read one after the other, in its own case
IsLettersOf(s, ls) ==
    LET t == Concat(ls)
        P == LetterPositions(t)
    IN  /\ \A k \in 1..Len(s) : s[k] \in Letters
        /\ Len(s) = Cardinality(P)
        /\ \A k \in 1..Cardinality(P) : s[k] = t[KthOf(P, k)]

\* the scan is at a line whose first word is ORIGIN
AtOrigin ==
    /\ pc = "scan"
    /\ numLine < Len(lines)
    /\ FirstWord(lines[numLine + 1]) = W_ORIGIN

\* C13: getSequence returns exactly the ASCII letters of all lines after
\* ORIGIN, in input order with case preserved: the step that dispatches an
\* ORIGIN line leaves in Sequence the letters of the lines after it, nothing
\* but letters, none dropped or reordered.
C13_SequenceIsLettersAfterOrigin ==
    [][AtOrigin => IsLettersOf(sequence', SliceFrom(lines, numLine + 1))]_vars

\* C13 witness: ORIGIN was dispatched with a numbered line of lower-case and
\* upper-case letters and a line of other characters after it
C13_Witness ==
    /\ lines = <<W_ORIGIN,
                 Sp(8) \o <<"1"," ","a","t","g","c"," ","A","T">>,
                 Sp(2) \o <<"9"," ","n","*","-","N">>>>
    /\ numLine = 1
    /\ sequence = <<"a","t","g","c","A","T","n","N">>

----------------------------------------------------------------------------
\* The lines ParseGbk's dispatcher ignores (Spec).

\* a line that is blank, begins with a blank, or whose first word is not one
\* of the nine top-level keywords
Ignored(l) ==
    \/ l = <<>>
    \/ l[1] = " "
    \/ FirstWord(l) \notin
          {W_LOCUS, W_DEFINITION, W_ACCESSION, W_VERSION, W_KEYWORDS,
           W_SOURCE, W_REFERENCE, W_FEATURES, W_ORIGIN}

\* C14: the iteration of the dispatcher at a line that is blank, begins with
\* a blank or has a first word outside the nine top-level keywords changes
\* neither Meta nor Features nor Sequence and moves the cursor on by exactly
\* one line; this includes the lines a block parser has consumed before.
C14_IgnoredLineChangesNothing ==
    [][(pc = "scan" /\ numLine < Len(lines) /\ Ignored(lines[numLine + 1])) =>
          /\ meta' = meta
          /\ features' = features
          /\ sequence' = sequence
          /\ numLine' = numLine + 1
          /\ pc' = "scan"]_vars

\* C14 witness: joinSubLines folded the continuation line into the
\* definition, then the dispatcher went over that line, and over a line with
\* an unknown first word, and the definition is as it was
C14_Witness ==
    /\ lines = <<TopLine(W_DEFINITION, 2, <<"d">>),
                 ContLine(<<"c">>),
                 <<"/","/">>>>
    /\ numLine = 3
    /\ pc = "scan"
    /\ meta = [EmptyMeta EXCEPT !.Definition = <<"d"," ","c">>]
    /\ features = <<>>
    /\ sequence = <<>>

====
